---- MODULE Spec2Model ----
(***************************************************************************)
(* Model of src/script.js: the chart scraper (scrapeChartData, runScraper), *)
(* the CSV export (exportToCSV) and the manual interval collector           *)
(* (manualTrigger).                                                         *)
(*                                                                         *)
(* A text (a JavaScript string) is a sequence of one-character strings, so  *)
(* that trimming, key building, cleaning and parsing are computed           *)
(* character by character.  JavaScript runs every job to completion: an     *)
(* action of the model is one job (the code between two awaits, one timer   *)
(* callback, one interval tick, one update of the page).                    *)
(***************************************************************************)
EXTENDS Integers, Sequences, FiniteSets, TLC

VARIABLES
    document,        \* the page's elements in document order (never changes)
    universe,        \* the tooltip states this page can show (never changes)
    tooltip,         \* the tooltip's DOM state now
    pc,              \* position of runScraper / scrapeChartData
    chartContainer,  \* index in document of the selected element, 0 = null
    x,               \* the loop variable of the sweep
    data,            \* scrapeChartData's data array
    seenDataPoints,  \* scrapeChartData's Set of keys
    returned,        \* what scrapeChartData returned
    scrapedData,     \* window.scrapedData
    downloads,       \* the CSV files exportToCSV made the browser download
    errors,          \* the console.error messages surfaced so far
    log,             \* ghost: the order of sort, assignment and export
    probes,          \* ghost: the x positions at which the tooltip was read
    observed,        \* ghost: the non-empty pairs read by the sweep, in order
    interval,        \* manualTrigger's interval: "none", "running", "cleared"
    mData,           \* manualTrigger's data array
    mSeen,           \* manualTrigger's Set of keys
    manualData,      \* window.manualData
    tickSeen,        \* ghost: the pairs read at interval ticks, in order
    directArgs       \* ghost: the arguments of the user's exportToCSV calls

vars == <<document, universe, tooltip, pc, chartContainer, x, data,
          seenDataPoints, returned, scrapedData, downloads, errors, log, probes,
          observed, interval, mData, mSeen, manualData, tickSeen, directArgs>>

(***************************************************************************)
(* Bounds of the model.                                                     *)
(***************************************************************************)
MaxElems == 2

MaxDirectCalls == 1

(***************************************************************************)
(* Program constants.                                                       *)
(***************************************************************************)
STEP_SIZE == 2

MinWidth == 200

MinHeight == 100

Margin == 10

\* A JavaScript variable holding undefined, or the array v.
Undefined == [defined |-> FALSE, value |-> <<>>]

Array(v) == [defined |-> TRUE, value |-> v]

(***************************************************************************)
(* Texts.                                                                   *)
(***************************************************************************)
Digits == {"0", "1", "2", "3", "4", "5", "6", "7", "8", "9"}

DigitValue(c) ==
    CASE c = "0" -> 0 [] c = "1" -> 1 [] c = "2" -> 2 [] c = "3" -> 3
      [] c = "4" -> 4 [] c = "5" -> 5 [] c = "6" -> 6 [] c = "7" -> 7
      [] c = "8" -> 8 [] c = "9" -> 9

\* The characters String.prototype.trim and the regexp class \s remove.
WhiteSpace == {" ", "\t", "\n"}

RECURSIVE TrimStart(_)
TrimStart(t) ==
    IF t # <<>> /\ Head(t) \in WhiteSpace THEN TrimStart(Tail(t)) ELSE t

RECURSIVE TrimEnd(_)
TrimEnd(t) ==
    IF t # <<>> /\ t[Len(t)] \in WhiteSpace
    THEN TrimEnd(SubSeq(t, 1, Len(t) - 1))
    ELSE t

\* textContent.trim()
Trim(t) == TrimEnd(TrimStart(t))

\* `${date}_${price}`
DataKey(date, price) == date \o <<"_">> \o price

(***************************************************************************)
(* The final sort (lines 135-144).                                          *)
(***************************************************************************)
\* A JavaScript number that may be NaN.
NaN == [nan |-> TRUE, t |-> 0]

Num(n) == [nan |-> FALSE, t |-> n]

\* new Date(text), as its time value.  The date texts of the model are the
\* ISO year form "YYYY" (ECMAScript's Date Time String Format), whose time
\* value grows with the year, and texts that are no date at all, for which
\* new Date gives an Invalid Date (time value NaN).  new Date never throws.
ParseDate(text) ==
    IF Len(text) = 4 /\ \A i \in 1..4 : text[i] \in Digits
    THEN Num(1000 * DigitValue(text[1]) + 100 * DigitValue(text[2])
             + 10 * DigitValue(text[3]) + DigitValue(text[4]))
    ELSE NaN

\* dateA - dateB
DateMinus(a, b) == IF a.nan \/ b.nan THEN NaN ELSE Num(a.t - b.t)

\* Whether the try block of the comparator throws: new Date(string) and the
\* subtraction of two Date objects never do, so the catch block with
\* localeCompare is never entered.
TryThrows(a, b) == FALSE

\* a.localeCompare(b) on texts: -1, 0 or 1 by lexicographic order of the
\* characters, ordered as listed in Collation.
Collation == <<" ", "_", ",", ".", "0", "1", "2", "3", "4", "5", "6", "7", "8",
               "9", "a", "b", "x", "$", "€">>

Rank(c) == CHOOSE i \in 1..Len(Collation) : Collation[i] = c

RECURSIVE localeCompare(_, _)
localeCompare(s, t) ==
    IF s = <<>> /\ t = <<>> THEN 0
    ELSE IF s = <<>> THEN -1
    ELSE IF t = <<>> THEN 1
    ELSE IF Rank(Head(s)) < Rank(Head(t)) THEN -1
    ELSE IF Rank(Head(s)) > Rank(Head(t)) THEN 1
    ELSE localeCompare(Tail(s), Tail(t))

\* The comparator handed to data.sort.
compareFn(a, b) ==
    IF TryThrows(a, b)
    THEN Num(localeCompare(a.date, b.date))
    ELSE DateMinus(ParseDate(a.date), ParseDate(b.date))

\* Array.prototype.sort's SortCompare: a NaN from the comparator counts as +0.
SortCompare(a, b) ==
    LET v == compareFn(a, b) IN IF v.nan THEN 0 ELSE v.t

Range(s) == {s[i] : i \in DOMAIN s}

\* ECMAScript's "consistent comparator" for the values of s.
ConsistentComparator(s) ==
    \A a, b, c \in Range(s) :
        /\ (SortCompare(a, b) = 0 /\ SortCompare(b, c) = 0) => SortCompare(a, c) = 0
        /\ (SortCompare(a, b) < 0 /\ SortCompare(b, c) < 0) => SortCompare(a, c) < 0
        /\ (SortCompare(a, b) > 0 /\ SortCompare(b, c) > 0) => SortCompare(a, c) > 0
        /\ (SortCompare(a, b) < 0) <=> (SortCompare(b, a) > 0)
        /\ (SortCompare(a, b) = 0) <=> (SortCompare(b, a) = 0)

\* Stable insertion of e into the sorted sequence s: after every element
\* that does not compare greater than e.
RECURSIVE InsertSorted(_, _)
InsertSorted(s, e) ==
    IF s = <<>> THEN <<e>>
    ELSE IF SortCompare(s[Len(s)], e) <= 0 THEN Append(s, e)
    ELSE Append(InsertSorted(SubSeq(s, 1, Len(s) - 1), e), s[Len(s)])

RECURSIVE StableSort(_)
StableSort(s) ==
    IF s = <<>> THEN <<>>
    ELSE InsertSorted(StableSort(SubSeq(s, 1, Len(s) - 1)), s[Len(s)])

Reorderings(s) ==
    { [i \in DOMAIN s |-> s[f[i]]] :
        f \in {g \in [DOMAIN s -> DOMAIN s] : \A i, j \in DOMAIN s : i # j => g[i] # g[j]} }

\* data.sort(compareFn): the stable sort when the comparator is consistent
\* on the elements; otherwise the order is implementation-defined, and any
\* permutation of the elements may come out.
SortOutcomes(s) ==
    IF ConsistentComparator(s) THEN {StableSort(s)} ELSE Reorderings(s)

(***************************************************************************)
(* Locating the chart element (lines 15-39).                                *)
(***************************************************************************)
\* The selectors of chartSelectors, by their index in the array:
\* 1 svg, 2 [data-testid*="chart"], 3 .recharts-wrapper, 4 .chart-container,
\* 5 canvas.
NumSelectors == 5

\* document.querySelectorAll(selector): the indices, in document order, of
\* the elements the selector matches.
RECURSIVE querySelectorAll(_, _, _)
querySelectorAll(doc, selector, from) ==
    IF from > Len(doc) THEN <<>>
    ELSE IF doc[from].sel = selector
         THEN <<from>> \o querySelectorAll(doc, selector, from + 1)
         ELSE querySelectorAll(doc, selector, from + 1)

\* Mutant of ReasonableSize: >= in place of >.
ReasonableSize_OrEqual(el) == el.width >= MinWidth /\ el.height >= MinHeight

\* rect.width > 200 && rect.height > 100
ReasonableSize(el) == el.width > MinWidth /\ el.height > MinHeight

\* The inner loop: the first element of elems of reasonable size, else 0.
RECURSIVE FirstReasonable(_, _)
FirstReasonable(doc, elems) ==
    IF elems = <<>> THEN 0
    ELSE IF ReasonableSize(doc[Head(elems)]) THEN Head(elems)
    ELSE FirstReasonable(doc, Tail(elems))

\* The outer loop over chartSelectors from index selector on: stops at the
\* first selector that yields a chart container.
RECURSIVE FindChart(_, _)
FindChart(doc, selector) ==
    IF selector > NumSelectors THEN 0
    ELSE LET found == FirstReasonable(doc, querySelectorAll(doc, selector, 1))
         IN IF found # 0 THEN found ELSE FindChart(doc, selector + 1)

\* startX and endX of the selected element (lines 42-44).
startX(el) == el.left + Margin

\* Mutant of endX: the last position is cut off (x < endX).
endX_Short(el) == (el.left + el.width) - Margin - 1

endX(el) == (el.left + el.width) - Margin

(***************************************************************************)
(* The tooltip and the reading of it (lines 51-61 and 230-236).             *)
(***************************************************************************)
\* A DOM state of the tooltip: the textContent of the elements matching
\* [data-testid="labelTextDate"] (ts) and [data-testid="labelTextPrice"]
\* (pr), in document order.
Shown(date, price) == [ts |-> <<date>>, pr |-> <<price>>]

Hidden == [ts |-> <<>>, pr |-> <<>>]

\* Mutant of getCurrentData: the price is read from another tooltip state
\* than the date, as if the page had updated between the two reads.
getCurrentData_Torn(dom) ==
    IF Len(dom.ts) > 0 /\ Len(dom.pr) > 0
    THEN LET others == {o \in universe : o # dom /\ Len(o.pr) > 0}
             other == IF others = {} THEN dom ELSE CHOOSE o \in others : TRUE
         IN [null |-> FALSE, date |-> Trim(dom.ts[1]), price |-> Trim(other.pr[1])]
    ELSE [null |-> TRUE, date |-> <<>>, price |-> <<>>]

\* getCurrentData(): null, or the trimmed texts of the first date element
\* and the first price element of the DOM state dom.
getCurrentData(dom) ==
    IF Len(dom.ts) > 0 /\ Len(dom.pr) > 0
    THEN [null |-> FALSE, date |-> Trim(dom.ts[1]), price |-> Trim(dom.pr[1])]
    ELSE [null |-> TRUE, date |-> <<>>, price |-> <<>>]

\* currentData && currentData.date && currentData.price
Truthy(current) == ~current.null /\ current.date # <<>> /\ current.price # <<>>

Entry(current) == [date |-> current.date, price |-> current.price]

\* s with e appended unless s already holds it (the ghost records).
AppendNew(s, e) == IF e \in Range(s) THEN s ELSE Append(s, e)

(***************************************************************************)
(* exportToCSV (lines 150-185).                                             *)
(***************************************************************************)
\* The characters of the class [€$£¥,\s].
Stripped == {"€", "$", "£", "¥", ","} \cup WhiteSpace

\* .replace(/[€$£¥,\s]/g, '')
StripChars(price) == SelectSeq(price, LAMBDA c : c \notin Stripped)

\* .replace(/\./g, '.')
ReplaceDots(t) == [i \in DOMAIN t |-> IF t[i] = "." THEN "." ELSE t[i]]

cleanPrice(price) == ReplaceDots(StripChars(price))

Quote == "\""

\* `"${row.date}","${cleanPrice}"`
csvRow(row) ==
    <<Quote>> \o row.date \o <<Quote, ",", Quote>> \o cleanPrice(row.price) \o <<Quote>>

csvHeader == <<"D", "a", "t", "e", ",", "P", "r", "i", "c", "e">>

\* lines.join(sep)
RECURSIVE Join(_, _)
Join(lines, sep) ==
    IF lines = <<>> THEN <<>>
    ELSE IF Len(lines) = 1 THEN lines[1]
    ELSE lines[1] \o <<sep>> \o Join(Tail(lines), sep)

\* Mutant of csvContent: the rows in reverse order.
csvContent_Reversed(d) ==
    Join(<<csvHeader>> \o [i \in DOMAIN d |-> csvRow(d[Len(d) + 1 - i])], "\n")

\* [csvHeader, ...csvRows].join('\n')
csvContent(d) == Join(<<csvHeader>> \o [i \in DOMAIN d |-> csvRow(d[i])], "\n")

NoDataToExport == "No data to export"

ChartNotFound == "Chart container not found"

NoDataCollected == "No data was collected"

\* Mutant of exportToCSV: the guard of line 151 is missing.
exportToCSV_NoGuard(arg, by, dls, errs) ==
    [downloads |-> Append(dls, [by |-> by, content |-> csvContent(arg.value)]),
     errors |-> errs]

\* exportToCSV(arg), called by `by`: the downloads and the error messages
\* after the call.  !data holds of null and undefined.
exportToCSV(arg, by, dls, errs) ==
    IF ~arg.defined \/ Len(arg.value) = 0
    THEN [downloads |-> dls, errors |-> errs \cup {NoDataToExport}]
    ELSE [downloads |-> Append(dls, [by |-> by, content |-> csvContent(arg.value)]),
          errors |-> errs]

(***************************************************************************)
(* The pages the model runs on.                                             *)
(***************************************************************************)
Y2001 == <<"2", "0", "0", "1">>

Y2002 == <<"2", "0", "0", "2">>

\* "€1,234.5": thousands separator ',', decimal point '.'
PriceEn == <<"€", "1", ",", "2", "3", "4", ".", "5">>

\* "1.234,5 €": thousands separator '.', decimal comma
PriceDe == <<"1", ".", "2", "3", "4", ",", "5", " ", "€">>

\* The tooltip states of a page are drawn from one of these sets.
\* TextPage: texts that are no dates, texts holding '_', texts to trim.
TextPage ==
    { Hidden,
      Shown(<<"x", "_">>, <<"5">>),
      Shown(<<"x">>, <<"_", "5">>),
      Shown(<<" ", "x", " ">>, <<" ", "5", "\n">>) }

\* MixedPage: dates that parse next to one that does not.
MixedPage ==
    { Hidden,
      Shown(Y2002, <<"5">>),
      Shown(<<"x">>, <<"5">>),
      Shown(Y2001, <<"$", "5">>) }

\* PricePage: two tooltips at once, a date without a price element, an
\* empty date, and both price formats.
PricePage ==
    { Hidden,
      [ts |-> <<Y2002, Y2001>>, pr |-> <<PriceEn, <<"5">>>>],
      [ts |-> <<Y2001>>, pr |-> <<>>],
      Shown(<<" ">>, <<"5">>),
      Shown(Y2001, PriceDe) }

Universes == {TextPage, MixedPage, PricePage}

\* Elements a chart selector can match: an icon, an element too narrow, one
\* too low, and two of reasonable size.
Rects ==
    { [left |-> 0, width |-> 24, height |-> 24],
      [left |-> 0, width |-> 200, height |-> 150],
      [left |-> 3, width |-> 204, height |-> 100],
      [left |-> 0, width |-> 201, height |-> 101],
      [left |-> 3, width |-> 204, height |-> 150] }

Element(sel, r) ==
    [sel |-> sel, left |-> r.left, width |-> r.width, height |-> r.height]

ElementKinds == {Element(sel, r) : sel \in 1..NumSelectors, r \in Rects}

SeqsUpTo(S, n) == UNION {[1..k -> S] : k \in 0..n}

\* Every document of at most MaxElems candidate elements.
AllDocuments == SeqsUpTo(ElementKinds, MaxElems)

Icon == Element(1, [left |-> 0, width |-> 24, height |-> 24])

ChartA == Element(1, [left |-> 0, width |-> 201, height |-> 101])

ChartB == Element(5, [left |-> 3, width |-> 204, height |-> 150])

\* The documents of the full run: no candidate, no candidate of reasonable
\* size, and a chart behind an icon.
RunDocuments == {<<>>, <<Icon>>, <<Icon, ChartA>>}

\* The documents of the sweep: two charts of different left edge and width.
SweepDocuments == {<<Icon, ChartA>>, <<ChartB>>}

(***************************************************************************)
(* The state after the script is loaded, before runScraper() is called.     *)
(***************************************************************************)
InitOn(docs, universes) ==
    /\ document \in docs
    /\ universe \in universes
    /\ tooltip = Hidden
    /\ pc = "start"
    /\ chartContainer = 0
    /\ x = 0
    /\ data = <<>>
    /\ seenDataPoints = {}
    /\ returned = Undefined
    /\ scrapedData = Undefined
    /\ downloads = <<>>
    /\ errors = {}
    /\ log = <<>>
    /\ probes = <<>>
    /\ observed = <<>>
    /\ interval = "none"
    /\ mData = <<>>
    /\ mSeen = {}
    /\ manualData = Undefined
    /\ tickSeen = <<>>
    /\ directArgs = <<>>

\* SmallPage: the part of TextPage shown while the run and the manual
\* interval are both active.
SmallPage ==
    { Hidden,
      Shown(<<"x", "_">>, <<"5">>),
      Shown(<<"x">>, <<"_", "5">>) }

\* PairPage: two dates that parse, in descending order of first display.
PairPage ==
    { Hidden,
      Shown(Y2002, <<"5">>),
      Shown(Y2001, <<"$", "5">>) }

Init ==
    \/ InitOn({<<>>, <<Icon>>}, Universes)
    \/ InitOn({<<Icon, ChartA>>}, {SmallPage, PairPage})

InitRun == InitOn(RunDocuments \cup SweepDocuments, Universes)

InitLocate == InitOn(AllDocuments, {TextPage})

InitSweep == InitOn(SweepDocuments, Universes)

(***************************************************************************)
(* The page: it may change the tooltip between any two jobs.                *)
(***************************************************************************)
PageUpdate ==
    /\ \E dom \in universe \ {tooltip} : tooltip' = dom
    /\ UNCHANGED <<document, universe, pc, chartContainer, x, data, seenDataPoints,
                   returned, scrapedData, downloads, errors, log, probes, observed,
                   interval, mData, mSeen, manualData, tickSeen, directArgs>>

(***************************************************************************)
(* scrapeChartData and runScraper.                                          *)
(***************************************************************************)
manualVars == <<interval, mData, mSeen, manualData, tickSeen, directArgs>>

\* The head of the for loop (line 103) with x = nx and data = d: either
\* triggerHoverAt dispatches its events and sets the timer (the run then
\* awaits it), or the loop ends, data is sorted and returned (lines 132-146).
LoopHead(el, nx, d) ==
    /\ x' = nx
    /\ IF nx <= endX(el)
       THEN /\ pc' = "await"
            /\ data' = d
            /\ UNCHANGED <<returned, log>>
       ELSE /\ \E sorted \in SortOutcomes(d) :
                 /\ data' = sorted
                 /\ returned' = Array(sorted)
            /\ log' = Append(log, "sorted")
            /\ pc' = "resume"

\* runScraper() is called (line 260) and runs scrapeChartData to its first
\* await: the chart is located; without one the error is logged and
\* undefined returned (lines 36-39), with one the sweep starts.
runScraper ==
    /\ pc = "start"
    /\ LET c == FindChart(document, 1) IN
       /\ chartContainer' = c
       /\ IF c = 0
          THEN /\ errors' = errors \cup {ChartNotFound}
               /\ returned' = Undefined
               /\ pc' = "resume"
               /\ UNCHANGED <<x, data, log>>
          ELSE /\ LoopHead(document[c], startX(document[c]), data)
               /\ UNCHANGED errors
    /\ UNCHANGED <<document, universe, tooltip, seenDataPoints,
                   scrapedData, downloads, probes, observed>>
    /\ UNCHANGED manualVars

\* The timer of triggerHoverAt fires (line 95): the tooltip is read and
\* recorded (lines 106-122), x advances and the loop head runs again.
TimerFires ==
    /\ pc = "await"
    /\ LET current == getCurrentData(tooltip)
           dataKey == DataKey(current.date, current.price)
           fresh   == Truthy(current) /\ dataKey \notin seenDataPoints
       IN
       /\ probes' = Append(probes, x)
       /\ observed' = IF Truthy(current) THEN AppendNew(observed, Entry(current))
                      ELSE observed
       /\ seenDataPoints' = IF fresh THEN seenDataPoints \cup {dataKey}
                            ELSE seenDataPoints
       /\ LoopHead(document[chartContainer], x + STEP_SIZE,
                   IF fresh THEN Append(data, Entry(current)) ELSE data)
    /\ UNCHANGED <<document, universe, tooltip, chartContainer,
                   scrapedData, downloads, errors>>
    /\ UNCHANGED manualVars

\* runScraper resumes after `await scrapeChartData()` (lines 195-215).
Resume ==
    /\ pc = "resume"
    /\ IF returned.defined /\ Len(returned.value) > 0
       THEN LET out == exportToCSV(returned, "runScraper", downloads, errors) IN
            /\ scrapedData' = returned
            /\ downloads' = out.downloads
            /\ errors' = out.errors
            /\ log' = log \o <<"assigned", "exported">>
       ELSE /\ errors' = errors \cup {NoDataCollected}
            /\ UNCHANGED <<scrapedData, downloads, log>>
    /\ pc' = "done"
    /\ UNCHANGED <<document, universe, tooltip, chartContainer, x,
                   data, seenDataPoints, returned, probes, observed>>
    /\ UNCHANGED manualVars

(***************************************************************************)
(* manualTrigger and the user's calls from the console.                     *)
(***************************************************************************)
runVars == <<document, universe, tooltip, pc, chartContainer, x, data,
             seenDataPoints, returned, scrapedData, log, probes, observed>>

\* manualTrigger() (lines 223-257): empty data, empty Set, interval set.
manualTrigger ==
    /\ interval = "none"
    /\ interval' = "running"
    /\ mData' = <<>>
    /\ mSeen' = {}
    /\ UNCHANGED <<manualData, tickSeen, directArgs, downloads, errors>>
    /\ UNCHANGED runVars

\* One tick of the interval: collectCurrentData (lines 230-247).
collectCurrentData ==
    /\ interval = "running"
    /\ LET current == getCurrentData(tooltip)
           dataKey == DataKey(current.date, current.price)
           fresh   == ~current.null /\ dataKey \notin mSeen
       IN
       /\ tickSeen' = IF current.null THEN tickSeen
                      ELSE AppendNew(tickSeen, Entry(current))
       /\ mSeen' = IF fresh THEN mSeen \cup {dataKey} ELSE mSeen
       /\ mData' = IF fresh THEN Append(mData, Entry(current)) ELSE mData
       /\ manualData' = Array(mData')
    /\ UNCHANGED <<interval, directArgs, downloads, errors>>
    /\ UNCHANGED runVars

\* The user runs clearInterval(interval).
ClearInterval ==
    /\ interval = "running"
    /\ interval' = "cleared"
    /\ UNCHANGED <<mData, mSeen, manualData, tickSeen, directArgs, downloads, errors>>
    /\ UNCHANGED runVars

\* The user calls exportToCSV from the console: with null, with an empty
\* array, or with window.manualData as line 254 suggests.
DirectExport ==
    /\ Len(directArgs) < MaxDirectCalls
    /\ \E arg \in {Undefined, Array(<<>>), manualData} :
         LET out == exportToCSV(arg, "user", downloads, errors) IN
         /\ directArgs' = Append(directArgs, arg)
         /\ downloads' = out.downloads
         /\ errors' = out.errors
    /\ UNCHANGED <<interval, mData, mSeen, manualData, tickSeen>>
    /\ UNCHANGED runVars

(***************************************************************************)
(* Specifications.                                                          *)
(***************************************************************************)
\* The whole script with the page and the user.
Next ==
    \/ runScraper
    \/ TimerFires
    \/ Resume
    \/ PageUpdate
    \/ manualTrigger
    \/ collectCurrentData
    \/ ClearInterval
    \/ DirectExport

Spec == Init /\ [][Next]_vars

\* The location of the chart element on every small document.
NextLocate == runScraper

LocateSpec == InitLocate /\ [][NextLocate]_vars

\* The automatic run alone; every timer that is set fires.
NextRun ==
    \/ runScraper
    \/ TimerFires
    \/ Resume
    \/ PageUpdate

RunSpec == InitRun /\ [][NextRun]_vars

FairSpec == InitSweep /\ [][NextRun]_vars /\ WF_vars(TimerFires)

(***************************************************************************)
(* Vocabulary of the properties.                                            *)
(***************************************************************************)
Count(s, e) == Cardinality({i \in DOMAIN s : s[i] = e})

IsPrefix(s, t) == Len(s) <= Len(t) /\ SubSeq(t, 1, Len(s)) = s

\* Position of e in s (e occurs in s).
IndexOf(s, e) == CHOOSE i \in DOMAIN s : s[i] = e /\ \A j \in 1..(i - 1) : s[j] # e

\* The lines of a text, split at line feeds.
RECURSIVE SplitLines(_)
SplitLines(t) ==
    IF \A i \in DOMAIN t : t[i] # "\n" THEN <<t>>
    ELSE LET k == CHOOSE i \in DOMAIN t :
                     t[i] = "\n" /\ \A j \in 1..(i - 1) : t[j] # "\n"
         IN <<SubSeq(t, 1, k - 1)>> \o SplitLines(SubSeq(t, k + 1, Len(t)))

\* The downloads made by `by`.
DownloadsBy(by) == SelectSeq(downloads, LAMBDA d : d.by = by)

\* The pair a DOM state displays: the trimmed texts of its first date
\* element and first price element.
Displays(dom, e) ==
    /\ Len(dom.ts) > 0
    /\ Len(dom.pr) > 0
    /\ e.date = Trim(dom.ts[1])
    /\ e.price = Trim(dom.pr[1])

\* The number of probes of a sweep over [left, right].
ProbeCount(el) == (((el.left + el.width) - el.left - 20) \div 2) + 1

\* What the page means by a price text: its thousands separator, its
\* decimal separator and the number shown, as mant / 10^frac.
PriceCatalog ==
    { [text |-> PriceEn, group |-> ",", decimal |-> ".", mant |-> 12345, frac |-> 1],
      [text |-> PriceDe, group |-> ".", decimal |-> ",", mant |-> 12345, frac |-> 1],
      [text |-> <<"$", "5">>, group |-> ",", decimal |-> ".", mant |-> 5, frac |-> 0],
      [text |-> <<"5">>, group |-> ",", decimal |-> ".", mant |-> 5, frac |-> 0] }

CurrencySymbols == {"€", "$", "£", "¥"}

RECURSIVE Pow10(_)
Pow10(n) == IF n = 0 THEN 1 ELSE 10 * Pow10(n - 1)

RECURSIVE DigitsValue(_)
DigitsValue(t) ==
    IF t = <<>> THEN 0 ELSE 10 * DigitsValue(SubSeq(t, 1, Len(t) - 1)) + DigitValue(t[Len(t)])

\* The number a plain decimal text (digits, at most one '.') denotes.
PlainValue(t) ==
    LET dots == {i \in DOMAIN t : t[i] = "."}
        digs == SelectSeq(t, LAMBDA c : c \in Digits)
    IN IF Cardinality(dots) > 1 \/ digs = <<>> \/ \E i \in DOMAIN t : t[i] \notin (Digits \cup {"."})
       THEN [valid |-> FALSE, mant |-> 0, frac |-> 0]
       ELSE [valid |-> TRUE, mant |-> DigitsValue(digs),
             frac |-> IF dots = {} THEN 0 ELSE Len(t) - (CHOOSE i \in dots : TRUE)]

SameNumber(v, p) == v.valid /\ v.mant * Pow10(p.frac) = p.mant * Pow10(v.frac)

Occurrences(t, c) == Cardinality({i \in DOMAIN t : t[i] = c})

(***************************************************************************)
(* The claims.                                                              *)
(***************************************************************************)
\* C1: the series scrapeChartData returns holds every pair that the sweep
\* read with a non-empty date and a non-empty price exactly once: none is
\* missing and none appears twice, pairs whose texts hold '_' included.
C1_EveryObservedPairExactlyOnce ==
    returned.defined =>
        /\ \A e \in Range(observed) : Count(returned.value, e) = 1
        /\ \A e \in Range(returned.value) : Count(returned.value, e) = 1

\* C2: the returned series is ascending by parsed date: of two consecutive
\* entries the first's parsed date is less than or equal to the second's,
\* and entries of equal parsed date keep their first-observed order.
C2_SortedByParsedDate ==
    returned.defined =>
        \A i \in 1..(Len(returned.value) - 1) :
            LET a == returned.value[i]
                b == returned.value[i + 1]
                ta == ParseDate(a.date)
                tb == ParseDate(b.date)
            IN /\ ~ta.nan
               /\ ~tb.nan
               /\ ta.t <= tb.t
               /\ ta.t = tb.t => IndexOf(observed, a) < IndexOf(observed, b)

\* C3: entries whose dates fail to parse are compared by their date texts,
\* so they come out ascending by date text.
C3_UnparseableOrderedByText ==
    returned.defined =>
        \A i, j \in DOMAIN returned.value :
            (/\ i < j
             /\ ParseDate(returned.value[i].date).nan
             /\ ParseDate(returned.value[j].date).nan)
            => localeCompare(returned.value[i].date, returned.value[j].date) <= 0

\* C4: every row of an exported CSV is "<date>","<cleanPrice>", both fields
\* quoted, where cleanPrice is the price without any currency symbol and
\* without its thousands separators, with its decimal points kept, and
\* denotes the number the displayed price denotes.
C4_RowsQuotedAndPricesClean ==
    \A k \in DOMAIN downloads :
        LET lines == SplitLines(downloads[k].content)
            series == scrapedData.value
        IN /\ Len(lines) = Len(series) + 1
           /\ \A i \in DOMAIN series :
                LET line == lines[i + 1]
                    date == series[i].date
                    clean == SubSeq(line, Len(date) + 5, Len(line) - 1)
                IN /\ line = <<Quote>> \o date \o <<Quote, ",", Quote>> \o clean \o <<Quote>>
                   /\ \A c \in Range(clean) : c \notin CurrencySymbols
                   /\ \A p \in PriceCatalog :
                        p.text = series[i].price =>
                            /\ Occurrences(clean, p.group) = 0
                            /\ Occurrences(clean, p.decimal)
                                   = Occurrences(series[i].price, p.decimal)
                            /\ SameNumber(PlainValue(clean), p)

\* C5: when no chart element is located, or no tooltip text is read at any
\* probe, runScraper exports nothing (no download, window.scrapedData not
\* assigned) and surfaces an error; and exportToCSV called with null or an
\* empty array makes no download and reports that there is no data.
C5_NothingExportedWithoutData ==
    /\ (pc = "done" /\ (chartContainer = 0 \/ observed = <<>>)) =>
          /\ DownloadsBy("runScraper") = <<>>
          /\ ~scrapedData.defined
          /\ NoDataCollected \in errors
          /\ chartContainer = 0 => ChartNotFound \in errors
    /\ Len(DownloadsBy("user"))
          = Cardinality({i \in DOMAIN directArgs :
                            directArgs[i].defined /\ directArgs[i].value # <<>>})
    /\ (\E i \in DOMAIN directArgs :
            ~directArgs[i].defined \/ directArgs[i].value = <<>>)
          => NoDataToExport \in errors

\* A sweep that read no tooltip text has ended and the user has called
\* exportToCSV without data.
C5_Witness ==
    /\ pc = "done"
    /\ chartContainer # 0
    /\ observed = <<>>
    /\ \E i \in DOMAIN directArgs : directArgs[i] = Array(<<>>)

\* C6: the element selected is the first one, by selector priority and then
\* by document order, whose width is over 200 and whose height is over 100;
\* none is selected exactly when no candidate passes the size test.
C6_FirstReasonableCandidate ==
    pc # "start" =>
        LET ok == {i \in DOMAIN document :
                      document[i].width > MinWidth /\ document[i].height > MinHeight}
            c == chartContainer
        IN /\ c = 0 <=> ok = {}
           /\ c # 0 =>
                /\ c \in ok
                /\ \A j \in ok :
                     \/ document[j].sel > document[c].sel
                     \/ document[j].sel = document[c].sel /\ j >= c

\* A candidate of reasonable size stands earlier in the document than the
\* selected one, which a selector of higher priority matches.
C6_Witness ==
    /\ pc # "start"
    /\ chartContainer = 2
    /\ document[1].width > MinWidth
    /\ document[1].height > MinHeight
    /\ document[1].sel > document[2].sel

\* The x positions read so far are left+10, left+12, ... in order, none
\* beyond right-10, and a finished sweep has read all of them.
C7_ProbesInOrder ==
    chartContainer # 0 =>
        LET el == document[chartContainer]
            right == el.left + el.width
        IN /\ \A i \in DOMAIN probes :
                /\ probes[i] = el.left + 10 + 2 * (i - 1)
                /\ probes[i] <= right - 10
           /\ returned.defined => Len(probes) = ProbeCount(el)
           /\ ~returned.defined => x = el.left + 10 + 2 * Len(probes)

\* C7: once a chart element is selected, the sweep reads the tooltip at
\* exactly the positions left+10, left+12, ... <= right-10, each once and in
\* increasing order, and, every timer firing, returns the series after
\* floor((right-left-20)/2)+1 probes.
C7_SweepProbesAndTerminates ==
    /\ []C7_ProbesInOrder
    /\ (chartContainer # 0) ~> returned.defined

\* The sweep over the chart of left edge 3 and width 204 has returned.
C7_Witness ==
    /\ returned.defined
    /\ chartContainer # 0
    /\ document[chartContainer].left = 3
    /\ Len(probes) = 93

\* C8: in a run whose sweep collected a point, exportToCSV is called exactly
\* once, after the whole sweep and the sort and after window.scrapedData
\* was assigned the series; the CSV is the header Date,Price followed by one
\* row per entry in the series' order; nothing is exported during the sweep.
C8_ExportOnceAfterSweep ==
    LET made == DownloadsBy("runScraper") IN
    /\ Len(made) <= 1
    /\ pc # "done" => made = <<>> /\ ~scrapedData.defined
    /\ (pc = "done" /\ data # <<>>) =>
          /\ Len(made) = 1
          /\ log = <<"sorted", "assigned", "exported">>
          /\ Len(probes) = ProbeCount(document[chartContainer])
          /\ scrapedData = Array(data)
          /\ returned = Array(data)
          /\ LET lines == SplitLines(made[1].content) IN
             /\ Len(lines) = Len(data) + 1
             /\ lines[1] = csvHeader
             /\ \A i \in DOMAIN data : lines[i + 1] = csvRow(data[i])

\* A run has exported a series of two entries.
C8_Witness ==
    /\ pc = "done"
    /\ Len(data) = 2
    /\ Len(downloads) = 1

\* C9: window.manualData only grows by appending, holds every pair seen at a
\* tick exactly once in first-observed order, is left alone by a tick that
\* sees no tooltip or a pair already collected, and gains nothing once the
\* interval is cleared.
C9_ManualDataAppendOnlyAndComplete ==
    /\ [](manualData.defined => manualData.value = tickSeen)
    /\ [][/\ IsPrefix(manualData.value, manualData'.value)
          /\ interval = "cleared" => manualData' = manualData
          /\ (tickSeen' = tickSeen /\ manualData.defined) => manualData' = manualData]_vars

\* C10: every entry the sweep or a tick records is the pair the tooltip
\* displays at the instant it is read, whatever the page did before.
C10_EntryIsOneTooltipState ==
    [][/\ \A e \in Range(data') \ Range(data) : Displays(tooltip, e)
       /\ \A e \in Range(mData') \ Range(mData) : Displays(tooltip, e)]_vars

\* The sweep and the interval have both recorded entries, and the page has
\* since moved the tooltip to a pair the sweep has not recorded.
C10_Witness ==
    /\ pc = "await"
    /\ interval = "running"
    /\ data # <<>>
    /\ mData # <<>>
    /\ \E e \in Range(mData) : e \notin Range(data) /\ ~Displays(tooltip, e)

====
